---- MODULE Spec2Model ----
(***************************************************************************)
(* NCAA survivor pool (Schwa343/NCAATESTPICKS1.29.25).                      *)
(*                                                                         *)
(* The repository holds five variants of one page component:               *)
(*   "page2"  src/app/page.tsx  290-625   fixed dates, no resolver          *)
(*   "page3"  src/app/page.tsx  626-1206  rolling dates, resolver, admin    *)
(*   "page4"  src/app/page.tsx 1207-1951  fixed dates, resolver, admin      *)
(*   "part1"  src/unnamed/part_001        fixed dates, no resolver          *)
(*   "part2"  src/unnamed/part_002        rolling dates, resolver           *)
(* All of them read and write the same Firestore collection `picks`.       *)
(*                                                                         *)
(* Program strings that the code inspects character by character (names,   *)
(* team names, game status descriptions, scores) are sequences of          *)
(* one-character strings, so that toLowerCase, replace, includes, trim and *)
(* split are computed as the code computes them.                           *)
(*                                                                         *)
(* Time is counted in half days: tick 2*d is the morning of calendar date  *)
(* d and tick 2*d+1 is noon of date d.  Time zones are not modelled.       *)
(***************************************************************************)
EXTENDS Integers, Sequences, FiniteSets, TLC

(***************************************************************************)
(* JavaScript string primitives                                            *)
(***************************************************************************)
UpperLetters ==
  <<"A","B","C","D","E","F","G","H","I","J","K","L","M",
    "N","O","P","Q","R","S","T","U","V","W","X","Y","Z">>

LowerLetters ==
  <<"a","b","c","d","e","f","g","h","i","j","k","l","m",
    "n","o","p","q","r","s","t","u","v","w","x","y","z">>

Digits == <<"0","1","2","3","4","5","6","7","8","9">>

Range(f) == { f[i] : i \in DOMAIN f }

UpperSet == Range(UpperLetters)

LowerSet == Range(LowerLetters)

DigitSet == Range(Digits)

IndexOf(c, table) == CHOOSE i \in DOMAIN table : table[i] = c

charToLower(c) == IF c \in UpperSet THEN LowerLetters[IndexOf(c, UpperLetters)] ELSE c

charToUpper(c) == IF c \in LowerSet THEN UpperLetters[IndexOf(c, LowerLetters)] ELSE c

toLowerCase(s) == [i \in 1..Len(s) |-> charToLower(s[i])]

toUpperCase(s) == [i \in 1..Len(s) |-> charToUpper(s[i])]

\* s.replace(/[^a-z0-9]/g, '')
stripNonAlnum(s) == SelectSeq(s, LAMBDA c : c \in LowerSet \cup DigitSet)

\* s.includes(sub)
includes(s, sub) ==
  \E str \in {s} : \E pat \in {sub} :
    \E i \in 0..(Len(str) - Len(pat)) : SubSeq(str, i + 1, i + Len(pat)) = pat

\* the replacement scan over the rest s of the subject string
RECURSIVE replaceRest(_, _, _)
replaceRest(s, pat, rep) ==
  IF Len(s) < Len(pat) THEN s
  ELSE IF SubSeq(s, 1, Len(pat)) = pat
       THEN rep \o replaceRest(SubSeq(s, Len(pat) + 1, Len(s)), pat, rep)
       ELSE <<s[1]>> \o replaceRest(Tail(s), pat, rep)

\* s.replace(/pat/g, rep) for a literal pattern: leftmost matches, left to
\* right; the subject string is evaluated once, then scanned
replaceAll(s, pat, rep) ==
  CHOOSE r \in { replaceRest(subject, pat, rep) : subject \in {s} } : TRUE

RECURSIVE trimStart(_)
trimStart(s) == IF s # <<>> /\ s[1] = " " THEN trimStart(Tail(s)) ELSE s

RECURSIVE trimEnd(_)
trimEnd(s) ==
  IF s # <<>> /\ s[Len(s)] = " " THEN trimEnd(SubSeq(s, 1, Len(s) - 1)) ELSE s

\* s.trim()
trim(s) == trimEnd(trimStart(s))

\* s.split(/\s+/): maximal runs of blanks separate the tokens; a leading or
\* trailing run yields an empty first or last token, as in JavaScript
RECURSIVE splitWs(_, _, _)
splitWs(s, cur, inGap) ==
  CHOOSE tokens \in
    { IF rest = <<>> THEN <<tok>>
      ELSE IF rest[1] = " "
           THEN IF inGap THEN splitWs(Tail(rest), tok, TRUE)
                ELSE <<tok>> \o splitWs(Tail(rest), <<>>, TRUE)
           ELSE splitWs(Tail(rest), Append(tok, rest[1]), FALSE) :
        rest \in {s}, tok \in {cur} } : TRUE

splitWhitespace(s) == splitWs(s, <<>>, FALSE)

\* s.split(' '): every single blank separates
RECURSIVE splitSp(_, _)
splitSp(s, cur) ==
  CHOOSE tokens \in
    { IF rest = <<>> THEN <<tok>>
      ELSE IF rest[1] = " " THEN <<tok>> \o splitSp(Tail(rest), <<>>)
           ELSE splitSp(Tail(rest), Append(tok, rest[1])) :
        rest \in {s}, tok \in {cur} } : TRUE

splitSpace(s) == splitSp(s, <<>>)

\* s.replace(/\s+/g, '')
stripWhitespace(s) == SelectSeq(s, LAMBDA c : c # " ")

\* s.charAt(0).toUpperCase() + s.slice(1).toLowerCase()
capitalize(s) ==
  IF s = <<>> THEN <<>>
  ELSE <<charToUpper(s[1])>> \o toLowerCase(Tail(s))

RECURSIVE digitsValue(_)
digitsValue(s) ==
  IF s = <<>> THEN 0
  ELSE 10 * digitsValue(SubSeq(s, 1, Len(s) - 1)) + (IndexOf(s[Len(s)], Digits) - 1)

\* Number(score) || 0 : a string of digits is its value, the empty string is 0,
\* anything else (the placeholder dash) is NaN and falls back to 0
NumberOrZero(s) ==
  IF \A i \in 1..Len(s) : s[i] \in DigitSet THEN digitsValue(s) ELSE 0

(***************************************************************************)
(* String literals of the program                                          *)
(***************************************************************************)
kwFinal == <<"f","i","n","a","l">>

kwEnd == <<"e","n","d">>

kwEnded == <<"e","n","d","e","d">>

kwComplete == <<"c","o","m","p","l","e","t","e">>

kwState == <<"s","t","a","t","e">>

kwSt == <<"s","t">>

kwOhio == <<"o","h","i","o">>

kwOh == <<"o","h">>

kwNorthern == <<"n","o","r","t","h","e","r","n">>

kwSouthern == <<"s","o","u","t","h","e","r","n">>

kwMiamiOh == <<"m","i","a","m","i"," ","o","h">>

kwMiamioh == <<"m","i","a","m","i","o","h">>

kwStanley == <<"s","t","a","n","l","e","y">>

kwStanleyS == <<"s","t","a","n","l","e","y"," ","s">>

\* the roster of page2, page3, page4, part1 and part2 (the same twenty names)
participantFullNames ==
  << <<"P","a","t","r","i","c","k"," ","G","i","f","f","o","r","d">>,
     <<"G","a","r","r","e","t"," ","G","o","t","a","a","s">>,
     <<"M","i","k","e"," ","S","c","h","w","a","r","t","z">>,
     <<"D","e","r","r","i","c","k"," ","D","e","f","e","v","e","r">>,
     <<"M","a","t","t"," ","S","y","z","m","a","n","s","k","i">>,
     <<"C","o","n","n","o","r"," ","G","i","r","o","u","x">>,
     <<"N","i","c","k"," ","D","a","h","l">>,
     <<"C","h","r","i","s"," ","C","a","n","a","d","a">>,
     <<"B","r","i","a","n"," ","B","u","r","g","e","r">>,
     <<"R","i","c","h"," ","D","e","w","a","r","d">>,
     <<"P","e","t","e","r"," ","M","u","r","r","a","y">>,
     <<"S","p","e","n","s","e","r"," ","P","a","w","l","i","k">>,
     <<"N","i","c","k"," ","M","o","w","i","d">>,
     <<"J","a","m","e","s"," ","C","o","n","w","a","y">>,
     <<"T","o","m"," ","S","t","r","o","b","e","l">>,
     <<"Z","a","k"," ","B","u","r","n","s">>,
     <<"A","l","e","x"," ","M","c","A","d","o","o">>,
     <<"S","e","a","n"," ","F","a","l","v","e","y">>,
     <<"T","y","l","e","r"," ","D","e","c","o","s","t","e","r">>,
     <<"M","i","k","e"," ","G","a","l","l","a","g","h","e","r">> >>

(***************************************************************************)
(* Variants                                                                *)
(***************************************************************************)
Variants == {"page2", "page3", "page4", "part1", "part2"}

\* lock deadlines and pick dates follow "today" instead of a fixed calendar
Rolling(v) == v \in {"page3", "part2"}

\* the variant has an outcome-resolver effect
HasResolver(v) == v \in {"page3", "page4", "part2"}

\* the variant has the admin inline edit
HasAdminEdit(v) == v \in {"page3", "page4"}

\* the variant disables the name fields once the name has picks
HasNameLock(v) == v \in {"page2", "page4", "part1"}

(***************************************************************************)
(* Name Normalizer                                                         *)
(***************************************************************************)
\* a ShortName without the last initial
getShortNameFirstOnly(full) ==
  capitalize(splitWhitespace(trim(full))[1])

\* getShortName of page3 and part2
getShortNameRest(full) ==
  LET parts == splitWhitespace(trim(full))
      first == parts[1]
      rest  == Tail(parts)
  IN  IF Len(rest) = 0 THEN full
      ELSE capitalize(first) \o <<" ">> \o <<charToUpper(rest[Len(rest)][1])>>

\* getShortName of part1
getShortNameParts(fullName) ==
  LET parts == splitWhitespace(trim(fullName))
      first == parts[1]
      last  == parts[Len(parts)]
      lastInitial == IF last = <<>> THEN <<>> ELSE <<charToUpper(last[1])>>
  IN  IF Len(parts) < 2 THEN fullName
      ELSE capitalize(first) \o <<" ">> \o lastInitial

\* getShortName of the standings-only component at the top of page.tsx
getShortNamePlain(full) ==
  LET p    == splitSpace(full)
      last == p[Len(p)]
  IN  p[1] \o <<" ">> \o
        (IF last = <<>> THEN <<"u","n","d","e","f","i","n","e","d">> ELSE <<last[1]>>)

getShortName(v, full) ==
  CASE v = "part1" -> getShortNameParts(full)
    [] v = "page1" -> getShortNamePlain(full)
    [] OTHER -> getShortNameRest(full)

\* the ShortName typed into the form: shortName / currentShortName
currentShortName(first, initial) ==
  trim(capitalize(trim(first)) \o <<" ">> \o toUpperCase(trim(initial)))

(***************************************************************************)
(* Team Name Matcher                                                       *)
(***************************************************************************)
\* normalizeTeamName of page3 and part2
normalizeTeamNameSt(name) ==
  replaceAll(stripWhitespace(stripNonAlnum(toLowerCase(name))), kwState, kwSt)

\* normalizeTeamName of page4
normalizeTeamNameFull(name) ==
  replaceAll(
    replaceAll(
      replaceAll(
        replaceAll(
          replaceAll(stripNonAlnum(toLowerCase(name)), kwState, kwSt),
          kwOhio, kwOh),
        kwNorthern, <<"n">>),
      kwSouthern, <<"s">>),
    kwMiamiOh, kwMiamioh)

normalizeTeamName(v, name) ==
  IF v = "page4" THEN normalizeTeamNameFull(name) ELSE normalizeTeamNameSt(name)

\* the inline cleaning of part1: toLowerCase().replace(/[^a-z0-9]/gi, '')
cleanTeamName(name) == stripNonAlnum(toLowerCase(name))

(***************************************************************************)
(* Bounds                                                                  *)
(***************************************************************************)
\* the clock runs over the ticks 0..MaxTime
MaxTime == 1

\* the day selector offers Day 1..MaxDay
MaxDay == 2

\* the picks collection holds at most MaxPicks documents
MaxPicks == 2

\* browser sessions (tabs) open on the page
Clients == {"tabA", "tabB"}

(***************************************************************************)
(* Calendar                                                                *)
(***************************************************************************)
\* calendar date of a tick: new Date() reduced to its day
today(t) == t \div 2

\* noon of a calendar date, as a tick
noonOf(date) == 2 * date + 1

\* pickDates / testDays: Day n of the fixed calendars is the n-th contest date
pickDates == [d \in 1..MaxDay |-> [day |-> d, date |-> d - 1, noonET |-> noonOf(d - 1)]]

\* the calendar date a day number denotes at tick t
dayDate(v, day, t) ==
  IF Rolling(v) THEN today(t) + day - 1 ELSE pickDates[day].date

\* isDayLocked / isLocked / the inline `new Date() >= noon`, evaluated at tick t
isDayLocked(v, day, t) == t >= noonOf(dayDate(v, day, t))

(***************************************************************************)
(* Scoreboard feed                                                         *)
(***************************************************************************)
Michigan == <<"M","i","c","h","i","g","a","n">>

MichiganSt == <<"M","i","c","h","i","g","a","n"," ","S","t">>

Scheduled == <<"S","c","h","e","d","u","l","e","d">>

EndOfPeriod == <<"E","n","d"," ","o","f"," ","P","e","r","i","o","d">>

Final == <<"F","i","n","a","l">>

Game(id, date, home, hs, away, as, status) ==
  [gameId |-> id, date |-> date, status |-> status,
   homeTeam |-> [name |-> home, score |-> hs],
   awayTeam |-> [name |-> away, score |-> as]]

\* the second contest date's game, the return match, not yet played
ReturnGame == Game(2, 1, MichiganSt, <<"0">>, Michigan, <<"0">>, Scheduled)

\* what the public scoreboard can answer: the first date's game before tip-off,
\* at a period break with the home side ahead, final with the away side ahead,
\* and reported final with no score; the second date's game follows it
FeedStates ==
  { << Game(1, 0, Michigan, <<"0">>, MichiganSt, <<"0">>, Scheduled), ReturnGame >>,
    << Game(1, 0, Michigan, <<"3","0">>, MichiganSt, <<"2","5">>, EndOfPeriod), ReturnGame >>,
    << Game(1, 0, Michigan, <<"6","0">>, MichiganSt, <<"6","5">>, Final), ReturnGame >>,
    << Game(1, 0, Michigan, <<"0">>, MichiganSt, <<"0">>, Final), ReturnGame >> }

\* the answers possible at tick t: games tip off after the noon of their date
FeedAt(t) ==
  { feed \in FeedStates :
      \A i \in DOMAIN feed :
        t < noonOf(feed[i].date) => feed[i].status = Scheduled }

\* the feed only moves on: a game reported `old` is later reported `new`
laterReport(old, new) ==
  \/ new = old
  \/ old.status = Scheduled
  \/ old.status = EndOfPeriod /\ new.status = Final /\ new.homeTeam.score # <<"0">>
  \/ old.status = Final /\ old.homeTeam.score = <<"0">> /\ new.status = Final

\* the answers the feed can give to a client that holds the scoreboard sb
FeedAfter(sb, t) ==
  { feed \in FeedAt(t) :
      \A i \in DOMAIN sb : \A j \in DOMAIN feed :
        sb[i].gameId = feed[j].gameId => laterReport(sb[i], feed[j]) }

\* the dates fetchScores asks the feed for at tick t
requestedDates(v, t) ==
  CASE v = "page2" -> {today(t)}
    [] v \in {"page3", "part2"} -> {today(t), today(t) + 1}
    [] v = "page4" -> today(t)..(today(t) + 6)
    [] OTHER -> {pickDates[d].date : d \in 1..MaxDay}

\* fetchScores: the games of the requested dates, in feed order
fetchScores(v, feed, t) ==
  SelectSeq(feed, LAMBDA g : g.date \in requestedDates(v, t))

\* availableTeams / available: the team names playing on the selected day
availableTeams(v, sb, day, t) ==
  UNION { {sb[i].homeTeam.name, sb[i].awayTeam.name} \ {<<>>} :
            i \in { j \in DOMAIN sb : sb[j].date = dayDate(v, day, t) } }

(***************************************************************************)
(* Picks store and its read model                                          *)
(***************************************************************************)
\* a document of the collection `picks`; id is its position in the store,
\* status "none" is an absent status field, round n is the label "Day n"
\* (`Day ${n}` and Number(round.replace('Day ', '')) are inverse on the day
\* numbers).  The server timestamps `timestamp` and `resultAt` are written
\* but never read by any variant, and are left out.
Pick(id, name, team, round, status, t) ==
  [id |-> id, name |-> name, team |-> team, round |-> round, status |-> status,
   createdAt |-> t]

\* picks.sort by createdAt ascending; equal createdAt keep store order
RECURSIVE sortByCreatedAt(_)
sortByCreatedAt(S) ==
  IF S = {} THEN <<>>
  ELSE LET m == CHOOSE d \in S : \A e \in S :
                  \/ d.createdAt < e.createdAt
                  \/ d.createdAt = e.createdAt /\ d.id <= e.id
       IN  <<m>> \o sortByCreatedAt(S \ {m})

\* the listener's orderBy('createdAt', 'desc')
reverse(s) == [i \in 1..Len(s) |-> s[Len(s) + 1 - i]]

\* one entry of allUsers / userPicks / picksData
userEntry(v, name, docs) ==
  LET mine == { docs[i] : i \in { j \in DOMAIN docs : docs[j].name = name } }
  IN  [name   |-> name,
       picks  |-> IF v = "page2" THEN reverse(sortByCreatedAt(mine))
                  ELSE sortByCreatedAt(mine),
       status |-> IF \E p \in mine : p.status = "eliminated"
                  THEN "eliminated" ELSE "alive"]

\* participants.map(name => getShortName(name)) of page3
rosterShortNames ==
  { getShortName("page3", participantFullNames[i]) : i \in DOMAIN participantFullNames }

\* the onSnapshot callback: group the documents by name (page3: by roster entry)
groupUsers(v, docs) ==
  IF v = "page3"
  THEN { userEntry(v, n, docs) : n \in rosterShortNames }
  ELSE { userEntry(v, n, docs) :
           n \in { docs[i].name : i \in DOMAIN docs } \ {<<>>} }

\* users.find(u => u.name === name), or the empty entry when there is none
NoUser == [name |-> <<>>, picks |-> <<>>, status |-> "none"]

findUser(users, name) ==
  IF \E u \in users : u.name = name
  THEN CHOOSE u \in users : u.name = name
  ELSE NoUser

\* user.picks.map(p => p.team).filter(Boolean); page2 keeps empty teams
teamsOf(v, user) ==
  { user.picks[i].team : i \in DOMAIN user.picks } \
     (IF v = "page2" THEN {} ELSE {<<>>})

(***************************************************************************)
(* Outcome Resolver                                                        *)
(***************************************************************************)
\* the finality test on the status description
isFinal(v, status) ==
  LET statusLower == toLowerCase(status)
  IN  \/ includes(statusLower, kwFinal)
      \/ includes(statusLower, kwEnd)
      \/ v = "page4" /\ includes(statusLower, kwComplete)

\* the picks of a user the resolver looks at
resolverSkips(v, pick) ==
  IF v = "page4" THEN pick.status = "eliminated"
  ELSE pick.status \notin {"none", "pending"}

\* the test that associates a stored pick with a live team name: the
\* normalized live name contains the normalized pick
teamsMatch(v, pickTeam, liveName) ==
  includes(normalizeTeamName(v, liveName), normalizeTeamName(v, pickTeam))

\* scoreboard.find: the first game of the pick's date with a matching side
findGame(v, pick, sb, t) ==
  CHOOSE first \in
    { IF hits = {} THEN 0 ELSE CHOOSE i \in hits : \A j \in hits : i <= j :
        hits \in { { i \in DOMAIN sb :
                       /\ sb[i].date = dayDate(v, pick.round, t)
                       /\ \/ teamsMatch(v, pick.team, sb[i].homeTeam.name)
                          \/ teamsMatch(v, pick.team, sb[i].awayTeam.name) } } } : TRUE

\* const isHome = ...
isHome(v, pick, game) ==
  LET np       == normalizeTeamName(v, pick.team)
      homeNorm == normalizeTeamName(v, game.homeTeam.name)
  IN  IF v = "page4" THEN includes(homeNorm, np) \/ includes(np, homeNorm)
      ELSE includes(homeNorm, np)

\* const won = ...
won(v, pick, game) ==
  LET h == NumberOrZero(game.homeTeam.score)
      a == NumberOrZero(game.awayTeam.score)
  IN  IF isHome(v, pick, game) THEN h > a ELSE a > h

\* the resolver without its 0-0 guard
noScoreDropped(game) == FALSE

\* if (homeScore === 0 && awayScore === 0): the feed has no score yet
noScore(game) ==
  /\ NumberOrZero(game.homeTeam.score) = 0
  /\ NumberOrZero(game.awayTeam.score) = 0

\* the body of the resolver effect for one pick, up to the store query:
\* "skip" where the code returns or continues, else the status it will write
resolveOutcome(v, pick, sb, t) ==
  IF resolverSkips(v, pick) THEN "skip"
  ELSE CHOOSE outcome \in
         { IF g = 0 THEN "skip"
           ELSE IF ~isFinal(v, sb[g].status) THEN "skip"
           ELSE IF noScore(sb[g]) THEN "skip"
           ELSE IF won(v, pick, sb[g]) THEN "won" ELSE "eliminated" :
             g \in {findGame(v, pick, sb, t)} } : TRUE

\* the resolver effect: the status writes it starts for a snapshot and a
\* scoreboard; nothing when either is empty or the variant has no resolver
resolvePendingPicks(v, users, sb, t) ==
  IF ~HasResolver(v) \/ sb = <<>> \/ users = {} THEN {}
  ELSE LET all == UNION { { [name   |-> u.name,
                             round  |-> u.picks[i].round,
                             status |-> resolveOutcome(v, u.picks[i], sb, t)] :
                              i \in DOMAIN u.picks } : u \in users }
       IN  { j \in all : j.status # "skip" }

(***************************************************************************)
(* Standings                                                               *)
(***************************************************************************)
\* picks.find(p => p.round === round): the index of the first pick of the
\* round, 0 when there is none
pickForRound(userPicks, round) ==
  LET hits == { i \in DOMAIN userPicks : userPicks[i].round = round }
  IN  IF hits = {} THEN 0 ELSE CHOOSE i \in hits : \A j \in hits : i <= j

\* isDeadForDay of part1: the standings decide from the scoreboard whether
\* the pick of the selected day has lost
isDeadForDay(userPicks, round, sb) ==
  LET i      == pickForRound(userPicks, round)
      pick   == IF i = 0 THEN <<>> ELSE userPicks[i].team
      picked == cleanTeamName(pick)
      hits   == { j \in DOMAIN sb :
                    \/ includes(cleanTeamName(sb[j].homeTeam.name), picked)
                    \/ includes(cleanTeamName(sb[j].awayTeam.name), picked)
                    \/ includes(picked, cleanTeamName(sb[j].homeTeam.name))
                    \/ includes(picked, cleanTeamName(sb[j].awayTeam.name)) }
  IN  IF pick = <<>> \/ hits = {} THEN FALSE
      ELSE LET game        == sb[CHOOSE j \in hits : \A k \in hits : j <= k]
               statusLower == toLowerCase(game.status)
               final       == \/ includes(statusLower, kwFinal)
                              \/ includes(statusLower, kwEnded)
                              \/ includes(statusLower, kwComplete)
               homeScore   == NumberOrZero(game.homeTeam.score)
               awayScore   == NumberOrZero(game.awayTeam.score)
               homeClean   == cleanTeamName(game.homeTeam.name)
               awayClean   == cleanTeamName(game.awayTeam.name)
               home        == includes(homeClean, picked) \/ includes(picked, homeClean)
               away        == includes(awayClean, picked) \/ includes(picked, awayClean)
           IN  IF ~final THEN FALSE
               ELSE IF home THEN homeScore < awayScore
               ELSE IF away THEN awayScore < homeScore
               ELSE FALSE

\* the Status cell of a standings row: part1 shows Dead / Alive from
\* isDeadForDay of the selected day, the other variants the entry's status
standingsStatus(v, entry, sb, day) ==
  IF v = "part1"
  THEN (IF isDeadForDay(entry.picks, day, sb) THEN "eliminated" ELSE "alive")
  ELSE entry.status

(***************************************************************************)
(* Pick Validator: the synchronous part of handleSubmit                    *)
(***************************************************************************)
isLetterAZ(s) == Len(s) = 1 /\ s[1] \in UpperSet

\* rule 1, name fields
malformedName(v, first, initial) ==
  CASE v \in {"page3", "part2"} -> trim(first) = <<>> \/ Len(initial) # 1
    [] v = "page2" ->
         trim(first) = <<>> \/ Len(initial) # 1 \/ ~isLetterAZ(toUpperCase(initial))
    [] OTHER ->
         \/ trim(first) = <<>>
         \/ Len(toUpperCase(trim(initial))) # 1
         \/ ~isLetterAZ(toUpperCase(trim(initial)))

\* the name handleSubmit validates and stores
submitName(v, first, initial) ==
  IF v \in {"page4", "part1"}
  THEN capitalize(trim(first)) \o <<" ">> \o toUpperCase(trim(initial))
  ELSE currentShortName(first, initial)

\* a handleSubmit without the admin bypass
isAdminNameNever(v, first, initial) == FALSE

\* the reserved admin value
isAdminName(v, first, initial) ==
  CASE v \in {"page3", "part2"} ->
         toLowerCase(currentShortName(first, initial)) = kwStanleyS
    [] v = "page2" ->
         /\ includes(toLowerCase(currentShortName(first, initial)), kwStanley)
         /\ toUpperCase(initial) = <<"S">>
    [] OTHER ->
         /\ toLowerCase(trim(first)) = kwStanley
         /\ toUpperCase(trim(initial)) = <<"S">>

\* rule 2, roster membership
recognizedName(v, shortName) ==
  IF v \in {"page2", "page4"}
  THEN \E i \in DOMAIN participantFullNames :
         stripWhitespace(toLowerCase(participantFullNames[i]))
           = stripWhitespace(toLowerCase(shortName))
  ELSE \E i \in DOMAIN participantFullNames :
         getShortName(v, participantFullNames[i]) = shortName

\* the outcome of the checks of handleSubmit, in the order of the variant;
\* tNow is the clock at the click, tRender the clock at the last render
validateSubmission(v, first, initial, team, day, users, used, tNow, tRender) ==
  LET shortName  == submitName(v, first, initial)
      eliminated == findUser(users, shortName).status = "eliminated"
      locked     == IF Rolling(v) THEN isDayLocked(v, day, tNow)
                    ELSE isDayLocked(v, day, tRender)
  IN  IF malformedName(v, first, initial) THEN "MalformedName"
      ELSE IF isAdminName(v, first, initial) THEN "Admin"
      ELSE IF ~recognizedName(v, shortName) THEN "UnrecognizedName"
      ELSE IF v = "part1" /\ locked THEN "WindowLocked"
      ELSE IF v # "page2" /\ eliminated THEN "AlreadyEliminated"
      ELSE IF locked THEN "WindowLocked"
      ELSE IF team \in used THEN "TeamAlreadyUsed"
      ELSE IF v = "page4" /\ team = <<>> THEN "NoTeam"
      ELSE "Accept"

\* the submit button's disabled attribute, computed at the last render
submitDisabled(v, first, initial, team, day, users, tRender) ==
  \/ team = <<>>
  \/ isDayLocked(v, day, tRender)
  \/ IF v \in {"page3", "part2"}
     THEN \/ currentShortName(first, initial) = <<>>
          \/ findUser(users, currentShortName(first, initial)).status = "eliminated"
     ELSE trim(first) = <<>> \/ Len(initial) # 1

\* a team button's disabled attribute, computed at the last render
teamDisabled(v, first, initial, team, day, users, used, tRender) ==
  \/ team \in used
  \/ isDayLocked(v, day, tRender)
  \/ /\ v \in {"page3", "part2"}
     /\ findUser(users, currentShortName(first, initial)).status = "eliminated"

(***************************************************************************)
(* State                                                                   *)
(***************************************************************************)
VARIABLES
  variant,        \* which page component is deployed
  now,            \* wall clock, in half-day ticks
  picks,          \* the Firestore collection `picks`, in insertion order
  firstName,      \* per client: useState firstName
  lastInitial,    \* per client: useState lastInitial
  selectedTeam,   \* per client: useState selectedTeam
  currentDay,     \* per client: useState currentDay
  statusMessage,  \* per client: useState statusMessage, as the rule that set it
  allUsers,       \* per client: useState allUsers / userPicks / picksData
  usedTeams,      \* per client: useState usedTeams
  scoreboard,     \* per client: useState scoreboard / games
  isAdmin,        \* per client: useState isAdmin / forceRevealed
  nameLocked,     \* per client: useState nameLocked
  renderedAt,     \* per client: the clock when the component last rendered
  op,             \* per client: the handleSubmit or admin edit awaiting the store
  jobs,           \* per client: resolver writes awaiting the store
  fullNameIn,     \* the full name handed to getShortName
  shortNameOut    \* what getShortName returned for it, <<>> before the call

vars == <<variant, now, picks, firstName, lastInitial, selectedTeam, currentDay,
          statusMessage, allUsers, usedTeams, scoreboard, isAdmin, nameLocked,
          renderedAt, op, jobs, fullNameIn, shortNameOut>>

NoOp == [kind |-> "none"]

\* what a participant types into the name fields: Mike Schwartz, in lower case
PickerInputs == { << <<"m","i","k","e">>, <<"s">> >> }

\* what the commissioner types into the name fields
AdminInputs == { << <<"s","t","a","n","l","e","y">>, <<"s">> >> }

\* the stored name of the participant who types PickerInputs
MikeS == <<"M","i","k","e"," ","S">>

\* the standings rows the admin edits: the row of Mike Schwartz
AdminRows == {3}

\* the single browser tab of the one-session scenarios
OneTab == {"tabA"}

\* the component state of every tab after mount: the useState initialisers
Mounted ==
  /\ firstName = [c \in Clients |-> <<>>]
  /\ lastInitial = [c \in Clients |-> <<>>]
  /\ selectedTeam = [c \in Clients |-> <<>>]
  /\ currentDay = [c \in Clients |-> 1]
  /\ statusMessage = [c \in Clients |-> ""]
  /\ allUsers = [c \in Clients |-> {}]
  /\ usedTeams = [c \in Clients |-> {}]
  /\ scoreboard = [c \in Clients |-> <<>>]
  /\ isAdmin = [c \in Clients |-> FALSE]
  /\ nameLocked = [c \in Clients |-> FALSE]
  /\ renderedAt = [c \in Clients |-> 0]
  /\ op = [c \in Clients |-> NoOp]
  /\ jobs = [c \in Clients |-> {}]
  /\ fullNameIn = <<>>
  /\ shortNameOut = <<>>

(***************************************************************************)
(* Effects that run after a render                                         *)
(***************************************************************************)
\* the usedTeams effect of page2, page4 and part1, deps [shortName, users]:
\* the new usedTeams
usedTeamsEffect(v, short, users, used) ==
  IF short # <<>> /\ findUser(users, short) # NoUser
  THEN teamsOf(v, findUser(users, short))
  ELSE used

\* the same effect: the new nameLocked
nameLockedEffect(v, short, users, locked) ==
  (short # <<>> /\ findUser(users, short) # NoUser) \/ locked

\* the tail of the onSnapshot callback of page3 and part2
usedTeamsOnSnapshot(v, short, users, used) ==
  IF findUser(users, short) # NoUser
  THEN teamsOf(v, findUser(users, short))
  ELSE used

(***************************************************************************)
(* Environment                                                             *)
(***************************************************************************)
\* time passes; nothing renders
Tick ==
  /\ now < MaxTime
  /\ now' = now + 1
  /\ UNCHANGED <<fullNameIn, shortNameOut, variant, picks, firstName, lastInitial, selectedTeam,
                 currentDay, statusMessage, allUsers, usedTeams, scoreboard,
                 isAdmin, nameLocked, renderedAt, op, jobs>>

\* the poll timer fires: fetchScores stores the feed's answer, the component
\* renders and the resolver effect runs on the new scoreboard
FetchScores(c) ==
  \E feed \in FeedAfter(scoreboard[c], now) :
    LET sb == fetchScores(variant, feed, now)
    IN  /\ scoreboard' = [scoreboard EXCEPT ![c] = sb]
        /\ jobs' = [jobs EXCEPT
                      ![c] = @ \cup resolvePendingPicks(variant, allUsers[c], sb, now)]
        /\ renderedAt' = [renderedAt EXCEPT ![c] = now]
        /\ UNCHANGED <<fullNameIn, shortNameOut, variant, now, picks, firstName, lastInitial, selectedTeam,
                       currentDay, statusMessage, allUsers, usedTeams, isAdmin,
                       nameLocked, op>>

\* the store delivers its current content to the listener of client c: the
\* callback regroups the picks, the component renders, the usedTeams effect
\* and the resolver effect run on the new snapshot
Snapshot(c) ==
  \E users \in {groupUsers(variant, picks)} :
  \E short \in {currentShortName(firstName[c], lastInitial[c])} :
      /\ allUsers' = [allUsers EXCEPT ![c] = users]
      /\ usedTeams' = [usedTeams EXCEPT ![c] =
            IF HasNameLock(variant)
            THEN usedTeamsEffect(variant, short, users, @)
            ELSE usedTeamsOnSnapshot(variant, short, users, @)]
      /\ nameLocked' = [nameLocked EXCEPT ![c] =
            IF HasNameLock(variant)
            THEN nameLockedEffect(variant, short, users, @)
            ELSE @]
      /\ jobs' = [jobs EXCEPT
                    ![c] = @ \cup resolvePendingPicks(variant, users, scoreboard[c], now)]
      /\ renderedAt' = [renderedAt EXCEPT ![c] = now]
      /\ UNCHANGED <<fullNameIn, shortNameOut, variant, now, picks, firstName, lastInitial, selectedTeam,
                     currentDay, statusMessage, scoreboard, isAdmin, op>>

(***************************************************************************)
(* User interface                                                          *)
(***************************************************************************)
\* the onChange handlers of the two name fields, taken together; the last
\* initial is upper-cased and cut to one character
SetName(c, inputs) ==
  \E inp \in inputs :
    LET first   == inp[1]
        initial == SubSeq(toUpperCase(inp[2]), 1, 1)
        short   == currentShortName(first, initial)
    IN  /\ op[c] = NoOp
        /\ ~(HasNameLock(variant) /\ nameLocked[c])
        /\ <<first, initial>> # <<firstName[c], lastInitial[c]>>
        /\ firstName' = [firstName EXCEPT ![c] = first]
        /\ lastInitial' = [lastInitial EXCEPT ![c] = initial]
        /\ usedTeams' = [usedTeams EXCEPT ![c] =
              IF HasNameLock(variant)
              THEN usedTeamsEffect(variant, short, allUsers[c], @)
              ELSE @]
        /\ nameLocked' = [nameLocked EXCEPT ![c] =
              IF HasNameLock(variant)
              THEN nameLockedEffect(variant, short, allUsers[c], @)
              ELSE @]
        /\ renderedAt' = [renderedAt EXCEPT ![c] = now]
        /\ UNCHANGED <<fullNameIn, shortNameOut, variant, now, picks, selectedTeam, currentDay,
                       statusMessage, allUsers, scoreboard, isAdmin, op, jobs>>

\* a day-selector button
SetCurrentDay(c) ==
  \E d \in 1..MaxDay :
    /\ op[c] = NoOp
    /\ d # currentDay[c]
    /\ currentDay' = [currentDay EXCEPT ![c] = d]
    /\ renderedAt' = [renderedAt EXCEPT ![c] = now]
    /\ UNCHANGED <<fullNameIn, shortNameOut, variant, now, picks, firstName, lastInitial, selectedTeam,
                   statusMessage, allUsers, usedTeams, scoreboard, isAdmin,
                   nameLocked, op, jobs>>

\* a button of the team grid, as rendered
SelectTeam(c) ==
  \E team \in availableTeams(variant, scoreboard[c], currentDay[c], renderedAt[c]) :
    /\ ~teamDisabled(variant, firstName[c], lastInitial[c], team, currentDay[c],
                     allUsers[c], usedTeams[c], renderedAt[c])
    /\ op[c] = NoOp
    /\ team # selectedTeam[c]
    /\ selectedTeam' = [selectedTeam EXCEPT ![c] = team]
    /\ renderedAt' = [renderedAt EXCEPT ![c] = now]
    /\ UNCHANGED <<fullNameIn, shortNameOut, variant, now, picks, firstName, lastInitial, currentDay,
                   statusMessage, allUsers, usedTeams, scoreboard, isAdmin,
                   nameLocked, op, jobs>>

\* a handleSubmit that goes on to the store whatever its checks said
submitOpAnyway(result, name, team, round) ==
  [kind |-> "submit", phase |-> "lookup", name |-> name, team |-> team,
   round |-> round, target |-> 0]

\* what handleSubmit leaves awaiting the store: nothing after an early
\* return, the lookup of the try block after the last check
submitOp(result, name, team, round) ==
  IF result = "Accept"
  THEN [kind |-> "submit", phase |-> "lookup", name |-> name, team |-> team,
        round |-> round, target |-> 0]
  ELSE NoOp

\* the submit button, as rendered: handleSubmit up to its first await
HandleSubmit(c) ==
  LET v      == variant
      result == validateSubmission(v, firstName[c], lastInitial[c],
                   selectedTeam[c], currentDay[c], allUsers[c], usedTeams[c],
                   now, renderedAt[c])
      msg    == IF result = "Accept"
                THEN (IF v \in {"page4", "part1"} THEN "Saving" ELSE statusMessage[c])
                ELSE result
      clear  == result = "Admin" /\ v # "page2"
      admin  == result = "Admin" \/ isAdmin[c]
  IN  /\ op[c] = NoOp
      /\ ~submitDisabled(v, firstName[c], lastInitial[c], selectedTeam[c],
                         currentDay[c], allUsers[c], renderedAt[c])
      /\ statusMessage' = [statusMessage EXCEPT ![c] = msg]
      /\ isAdmin' = [isAdmin EXCEPT ![c] = admin]
      /\ firstName' = [firstName EXCEPT ![c] = IF clear THEN <<>> ELSE @]
      /\ lastInitial' = [lastInitial EXCEPT ![c] = IF clear THEN <<>> ELSE @]
      /\ op' = [op EXCEPT ![c] =
            submitOp(result, submitName(v, firstName[c], lastInitial[c]),
                     selectedTeam[c], currentDay[c])]
      /\ renderedAt' = [renderedAt EXCEPT ![c] =
            IF msg # statusMessage[c] \/ clear \/ admin # isAdmin[c] THEN now ELSE @]
      /\ UNCHANGED <<fullNameIn, shortNameOut, variant, now, picks, selectedTeam, currentDay, allUsers,
                     usedTeams, scoreboard, nameLocked, jobs>>

\* the short name of a standings row
rowShortName(v, full) ==
  IF v = "page4"
  THEN LET parts == splitSpace(full)
       IN  parts[1] \o <<" ">> \o <<charToUpper(parts[Len(parts)][1])>>
  ELSE getShortName(v, full)

\* the admin picks a team in the select of a standings cell: handleAdminEdit
\* (page3) or the inline onChange (page4) up to its first await
HandleAdminEdit(c) ==
  \E row \in AdminRows, round \in 1..MaxDay,
     newTeam \in availableTeams(variant, scoreboard[c], currentDay[c], renderedAt[c]) :
    LET userName == rowShortName(variant, participantFullNames[row])
        user     == findUser(allUsers[c], userName)
        alreadyUsed == \E i \in DOMAIN user.picks :
                          user.picks[i].team = newTeam /\ user.picks[i].round # round
    IN  /\ HasAdminEdit(variant)
        /\ isAdmin[c]
        /\ op[c] = NoOp
        /\ variant = "page3" => user # NoUser
        /\ op' = [op EXCEPT ![c] =
              IF alreadyUsed THEN NoOp
              ELSE [kind |-> "admin", phase |-> "lookup", name |-> userName,
                    team |-> newTeam, round |-> round, target |-> 0]]
        /\ statusMessage' = [statusMessage EXCEPT ![c] =
              IF alreadyUsed /\ variant = "page3" THEN "AdminRejected" ELSE @]
        /\ renderedAt' = [renderedAt EXCEPT ![c] = now]
        /\ UNCHANGED <<fullNameIn, shortNameOut, variant, now, picks, firstName, lastInitial, selectedTeam,
                       currentDay, allUsers, usedTeams, scoreboard, isAdmin,
                       nameLocked, jobs>>

(***************************************************************************)
(* Store operations                                                        *)
(***************************************************************************)
\* query(where name == .., where round == ..): the ids of the matching documents
matching(docs, name, round) ==
  { i \in DOMAIN docs : docs[i].name = name /\ docs[i].round = round }

\* the status field addDoc writes for a new pick
newPickStatus(v) == IF v \in {"page3", "part2"} THEN "pending" ELSE "none"

\* an updateDoc that leaves the document as it was
updateTeamDropped(v, kind, doc, team, t) == doc

\* updateDoc(.., {team, timestamp}); the inline admin edit of page4 also
\* rewrites createdAt
updateTeam(v, kind, doc, team, t) ==
  [doc EXCEPT !.team = team,
              !.createdAt = IF v = "page4" /\ kind = "admin" THEN t ELSE @]

\* a status write that is lost
updateStatusDropped(doc, status) == doc

\* updateDoc(.., {status, resultAt})
updateStatus(doc, status) == [doc EXCEPT !.status = status]

\* await getDocs(q) of handleSubmit or of the admin edit: existing.docs[0] is
\* any of the matching documents (result order is by random document id)
OpLookup(c) ==
  /\ op[c] # NoOp
  /\ op[c].phase = "lookup"
  /\ \E target \in IF matching(picks, op[c].name, op[c].round) = {} THEN {0}
                   ELSE matching(picks, op[c].name, op[c].round) :
       op' = [op EXCEPT ![c] = [@ EXCEPT !.phase = "write", !.target = target]]
  /\ UNCHANGED <<fullNameIn, shortNameOut, variant, now, picks, firstName, lastInitial, selectedTeam,
                 currentDay, statusMessage, allUsers, usedTeams, scoreboard,
                 isAdmin, nameLocked, renderedAt, jobs>>

\* await updateDoc / addDoc of handleSubmit or of the admin edit, and the
\* statements after it
OpWrite(c) ==
  /\ op[c] # NoOp
  /\ op[c].phase = "write"
  /\ IF op[c].target # 0
     THEN picks' = [picks EXCEPT ![op[c].target] =
                      updateTeam(variant, op[c].kind, @, op[c].team, now)]
     ELSE /\ Len(picks) < MaxPicks
          /\ picks' = Append(picks,
                        Pick(Len(picks) + 1, op[c].name, op[c].team, op[c].round,
                             IF op[c].kind = "admin" /\ variant = "page4" THEN "none"
                             ELSE newPickStatus(variant), now))
  /\ statusMessage' = [statusMessage EXCEPT ![c] =
        IF op[c].kind = "submit" THEN "Saved" ELSE "AdminSaved"]
  /\ selectedTeam' = [selectedTeam EXCEPT ![c] =
        IF op[c].kind = "submit" THEN <<>> ELSE @]
  /\ nameLocked' = [nameLocked EXCEPT ![c] =
        IF op[c].kind = "submit" /\ variant \in {"page4", "part1"} THEN TRUE ELSE @]
  /\ op' = [op EXCEPT ![c] = NoOp]
  /\ renderedAt' = [renderedAt EXCEPT ![c] = now]
  /\ UNCHANGED <<fullNameIn, shortNameOut, variant, now, firstName, lastInitial, currentDay, allUsers,
                 usedTeams, scoreboard, isAdmin, jobs>>

\* the store call rejects: the catch block reports the error
OpFail(c) ==
  /\ op[c] # NoOp
  /\ op' = [op EXCEPT ![c] = NoOp]
  /\ statusMessage' = [statusMessage EXCEPT ![c] = "Error"]
  /\ renderedAt' = [renderedAt EXCEPT ![c] = now]
  /\ UNCHANGED <<fullNameIn, shortNameOut, variant, now, picks, firstName, lastInitial, selectedTeam,
                 currentDay, allUsers, usedTeams, scoreboard, isAdmin,
                 nameLocked, jobs>>

\* a resolver write reaches the store: getDocs by (name, round), then
\* updateDoc of docs[0] when the query is not empty.  The two awaits are one
\* step: documents are never deleted, so the document found is still there
ResolverWriteOf(c, job) ==
  /\ job \in jobs[c]
  /\ jobs' = [jobs EXCEPT ![c] = @ \ {job}]
  /\ IF matching(picks, job.name, job.round) = {}
     THEN picks' = picks
     ELSE \E target \in matching(picks, job.name, job.round) :
            picks' = [picks EXCEPT ![target] = updateStatus(@, job.status)]
  /\ UNCHANGED <<fullNameIn, shortNameOut, variant, now, firstName, lastInitial, selectedTeam, currentDay,
                 statusMessage, allUsers, usedTeams, scoreboard, isAdmin,
                 nameLocked, renderedAt, op>>

\* any of the writes the resolver has started reaches the store
ResolverWrite(c) == \E job \in jobs[c] : ResolverWriteOf(c, job)

\* a resolver write fails: getDocs or updateDoc rejects, the rejection is
\* logged (page4) or left unhandled, and the store is not changed
ResolverFail(c) ==
  \E job \in jobs[c] :
    /\ jobs' = [jobs EXCEPT ![c] = @ \ {job}]
    /\ UNCHANGED <<fullNameIn, shortNameOut, variant, now, picks, firstName, lastInitial, selectedTeam,
                   currentDay, statusMessage, allUsers, usedTeams, scoreboard, isAdmin,
                   nameLocked, renderedAt, op>>

(***************************************************************************)
(* Specification                                                           *)
(***************************************************************************)
\* One participant, one tab, empty store: the page of part1 or part2 from
\* its mount on, through name entry, team selection and submission
InitSubmit ==
  /\ variant \in {"part1", "part2"}
  /\ now = 0
  /\ picks = <<>>
  /\ Mounted

NextSubmit ==
  \/ Tick
  \/ \E c \in OneTab : FetchScores(c)
  \/ \E c \in OneTab : Snapshot(c)
  \/ \E c \in OneTab : SetName(c, PickerInputs)
  \/ \E c \in OneTab : SetCurrentDay(c)
  \/ \E c \in OneTab : SelectTeam(c)
  \/ \E c \in OneTab : HandleSubmit(c)
  \/ \E c \in OneTab : OpLookup(c)
  \/ \E c \in OneTab : OpWrite(c)
  \/ \E c \in OneTab : OpFail(c)
  \/ \E c \in OneTab : ResolverWrite(c)

SpecSubmit == InitSubmit /\ [][NextSubmit]_vars

\* The same participant in two tabs of part2 on the morning of the first
\* contest date, both submitting for Day 1
InitTabs ==
  /\ variant = "part2"
  /\ now = 0
  /\ picks = <<>>
  /\ Mounted

NextTabs ==
  \/ \E c \in Clients : FetchScores(c)
  \/ \E c \in Clients : Snapshot(c)
  \/ \E c \in Clients : SetName(c, PickerInputs)
  \/ \E c \in Clients : SelectTeam(c)
  \/ \E c \in Clients : HandleSubmit(c)
  \/ \E c \in Clients : OpLookup(c)
  \/ \E c \in Clients : OpWrite(c)

SpecTabs == InitTabs /\ [][NextTabs]_vars

\* One tab opened on a store that already holds the Day 1 pick of one
\* participant, watched while the game is played: polls, snapshots and the
\* writes of the resolver
StoredPicks ==
  { <<Pick(1, MikeS, team, 1, status, 0)>> :
      team \in {Michigan, MichiganSt}, status \in {"none", "pending"} }

InitPoll ==
  /\ variant \in {"page3", "page4", "part1", "part2"}
  /\ now = 0
  /\ picks \in { s \in StoredPicks : s[1].status = newPickStatus(variant) }
  /\ Mounted

NextPoll ==
  \/ Tick
  \/ \E c \in OneTab : FetchScores(c)
  \/ \E c \in OneTab : Snapshot(c)
  \/ \E c \in OneTab : ResolverWrite(c)

SpecPoll == InitPoll /\ [][NextPoll]_vars

\* The administrator on one tab of page4: the admin name typed into the form
\* and submitted unlocks the standings cells, whose select writes picks for
\* any participant.
InitAdmin == variant = "page4" /\ now = 0 /\ picks = <<>> /\ Mounted

NextAdmin ==
  \/ Tick
  \/ \E c \in OneTab : FetchScores(c)
  \/ \E c \in OneTab : Snapshot(c)
  \/ \E c \in OneTab : SetName(c, AdminInputs)
  \/ \E c \in OneTab : SelectTeam(c)
  \/ \E c \in OneTab : HandleSubmit(c)
  \/ \E c \in OneTab : HandleAdminEdit(c)
  \/ \E c \in OneTab : OpLookup(c)
  \/ \E c \in OneTab : OpWrite(c)
  \/ \E c \in OneTab : ResolverWrite(c)

SpecAdmin == InitAdmin /\ [][NextAdmin]_vars

\* What a visitor may type into the two name fields: a roster name in lower
\* and in upper case, an empty first name, a digit and a punctuation mark as
\* initial, a name of nobody, and a full roster name split before its last
\* letter.
FormInputs ==
  { << <<"m","i","k","e">>, <<"s">> >>,
    << <<"M","I","K","E">>, <<"S">> >>,
    << <<" ">>, <<"s">> >>,
    << <<"m","i","k","e">>, <<"1">> >>,
    << <<"m","i","k","e">>, <<"-">> >>,
    << <<"z","e","d">>, <<"q">> >>,
    << <<"m","i","k","e"," ","s","c","h","w","a","r","t">>, <<"z">> >> }

\* the stored name the last of the FormInputs derives
MikeSchwartZ == <<"M","i","k","e"," ","s","c","h","w","a","r","t"," ","Z">>

\* the store the form is opened on: empty, or holding a Day 1 pick that a
\* resolver has already marked eliminated
FormStores ==
  { <<>> } \cup
  { <<Pick(1, name, Michigan, 1, "eliminated", 0)>> : name \in {MikeS, MikeSchwartZ} }

\* One tab of the pick form of page2, page4, part1 or part2, with every kind
\* of name typed into it.
InitForm ==
  /\ variant \in {"page2", "page4", "part1", "part2"}
  /\ now = 0
  /\ picks \in FormStores
  /\ Mounted

NextForm ==
  \/ Tick
  \/ \E c \in OneTab : FetchScores(c)
  \/ \E c \in OneTab : Snapshot(c)
  \/ \E c \in OneTab : SetName(c, FormInputs)
  \/ \E c \in OneTab : SelectTeam(c)
  \/ \E c \in OneTab : HandleSubmit(c)
  \/ \E c \in OneTab : OpLookup(c)
  \/ \E c \in OneTab : OpWrite(c)

SpecForm == InitForm /\ [][NextForm]_vars

\* The components that derive a ShortName from a full name: getShortName of
\* page1, page3, part1 and part2, and the standings rows of page4
NameVariants == {"page1", "page3", "page4", "part1", "part2"}

\* the full names handed to the Name Normalizer: the roster, and names that
\* differ from each other in letter case only
NameInputs ==
  { participantFullNames[i] : i \in DOMAIN participantFullNames } \cup
  { <<"P","A","T","R","I","C","K"," ","g","i","f","f","o","r","d">>,
    <<"p","a","t","r","i","c","k"," ","G","I","F","F","O","R","D">>,
    <<"p","a","t","r","i","c","k"," ","g","i","f","f","o","r","d">>,
    <<"P","A","T","R","I","C","K">>,
    <<"p","a","t","r","i","c","k">>,
    <<"a","l","e","x"," ","m","c","a","d","o","o">> }

\* The Name Normalizer on its own: a component is mounted and derives the
\* ShortName of one full name.
InitNames ==
  /\ variant \in NameVariants
  /\ now = 0
  /\ picks = <<>>
  /\ firstName = [c \in Clients |-> <<>>]
  /\ lastInitial = [c \in Clients |-> <<>>]
  /\ selectedTeam = [c \in Clients |-> <<>>]
  /\ currentDay = [c \in Clients |-> 1]
  /\ statusMessage = [c \in Clients |-> ""]
  /\ allUsers = [c \in Clients |-> {}]
  /\ usedTeams = [c \in Clients |-> {}]
  /\ scoreboard = [c \in Clients |-> <<>>]
  /\ isAdmin = [c \in Clients |-> FALSE]
  /\ nameLocked = [c \in Clients |-> FALSE]
  /\ renderedAt = [c \in Clients |-> 0]
  /\ op = [c \in Clients |-> NoOp]
  /\ jobs = [c \in Clients |-> {}]
  /\ fullNameIn \in NameInputs
  /\ shortNameOut = <<>>

\* const short = getShortName(full), or the inline expression of page4
DeriveShortName ==
  /\ shortNameOut = <<>>
  /\ shortNameOut' = rowShortName(variant, fullNameIn)
  /\ UNCHANGED <<fullNameIn, variant, now, picks, firstName, lastInitial,
                 selectedTeam, currentDay, statusMessage, allUsers, usedTeams,
                 scoreboard, isAdmin, nameLocked, renderedAt, op, jobs>>

NextNames == DeriveShortName

SpecNames == InitNames /\ [][NextNames]_vars

\* what is typed into the name fields when the commissioner and a
\* participant use the form: the admin value in lower and in upper case, and
\* Mike Schwartz
BypassInputs ==
  AdminInputs \cup PickerInputs \cup
  { << <<"S","T","A","N","L","E","Y">>, <<"s">> >> }

\* One tab of the pick form of page2, part1 or part2, on which the admin
\* value and a participant's name are submitted.
InitBypass ==
  /\ variant \in {"page2", "part1", "part2"}
  /\ now = 0
  /\ picks = <<>>
  /\ Mounted

NextBypass ==
  \/ Tick
  \/ \E c \in OneTab : FetchScores(c)
  \/ \E c \in OneTab : Snapshot(c)
  \/ \E c \in OneTab : SetName(c, BypassInputs)
  \/ \E c \in OneTab : SelectTeam(c)
  \/ \E c \in OneTab : HandleSubmit(c)
  \/ \E c \in OneTab : OpLookup(c)
  \/ \E c \in OneTab : OpWrite(c)

SpecBypass == InitBypass /\ [][NextBypass]_vars

\* a team that plays on no contest date
Duke == <<"D","u","k","e">>

\* status descriptions a scoreboard answer can carry
KeywordStatuses ==
  { Scheduled, EndOfPeriod, Final,
    <<"F","I","N","A","L">>,
    <<"F","i","n","a","l","/","O","T">>,
    <<"I","n"," ","P","r","o","g","r","e","s","s">>,
    <<"H","a","l","f","t","i","m","e">>,
    <<"P","o","s","t","p","o","n","e","d">>,
    <<"C","a","n","c","e","l","e","d">>,
    <<"C","o","m","p","l","e","t","e">> }

\* the first date's game with a score of 60-65 under each description
KeywordFeeds ==
  { << Game(1, 0, Michigan, <<"6","0">>, MichiganSt, <<"6","5">>, status), ReturnGame >> :
      status \in KeywordStatuses }

\* One tab of a component with a resolver, after the noon of the first date:
\* it has polled the scoreboard once, the store holds one unresolved Day 1
\* pick, and the snapshot listener and the resolver run.
InitKeywords ==
  /\ variant \in {"page3", "page4", "part2"}
  /\ now = 1
  /\ picks \in { <<Pick(1, MikeS, team, 1, newPickStatus(variant), 0)>> :
                    team \in {Michigan, MichiganSt, Duke} }
  /\ scoreboard \in { [c \in Clients |->
                         IF c \in OneTab THEN fetchScores(variant, feed, now) ELSE <<>>] :
                       feed \in KeywordFeeds }
  /\ firstName = [c \in Clients |-> <<>>]
  /\ lastInitial = [c \in Clients |-> <<>>]
  /\ selectedTeam = [c \in Clients |-> <<>>]
  /\ currentDay = [c \in Clients |-> 1]
  /\ statusMessage = [c \in Clients |-> ""]
  /\ allUsers = [c \in Clients |-> {}]
  /\ usedTeams = [c \in Clients |-> {}]
  /\ isAdmin = [c \in Clients |-> FALSE]
  /\ nameLocked = [c \in Clients |-> FALSE]
  /\ renderedAt = [c \in Clients |-> now]
  /\ op = [c \in Clients |-> NoOp]
  /\ jobs = [c \in Clients |-> {}]
  /\ fullNameIn = <<>>
  /\ shortNameOut = <<>>

NextKeywords ==
  \/ \E c \in OneTab : Snapshot(c)
  \/ \E c \in OneTab : ResolverWrite(c)

SpecKeywords == InitKeywords /\ [][NextKeywords]_vars

\* One tab of part2 on the morning of the first contest date, after its first
\* poll: Michigan plays Michigan St today, Duke plays Michigan St tomorrow.
\* The participant types a name, moves between the day buttons, picks a team
\* and submits.
DaysScoreboard ==
  << Game(1, 0, Michigan, <<"0">>, MichiganSt, <<"0">>, Scheduled),
     Game(2, 1, Duke, <<"0">>, MichiganSt, <<"0">>, Scheduled) >>

InitDays ==
  /\ variant = "part2"
  /\ now = 0
  /\ picks = <<>>
  /\ firstName = [c \in Clients |-> <<>>]
  /\ lastInitial = [c \in Clients |-> <<>>]
  /\ selectedTeam = [c \in Clients |-> <<>>]
  /\ currentDay = [c \in Clients |-> 1]
  /\ statusMessage = [c \in Clients |-> ""]
  /\ allUsers = [c \in Clients |-> {}]
  /\ usedTeams = [c \in Clients |-> {}]
  /\ scoreboard = [c \in Clients |->
        IF c \in OneTab THEN fetchScores(variant, DaysScoreboard, now) ELSE <<>>]
  /\ isAdmin = [c \in Clients |-> FALSE]
  /\ nameLocked = [c \in Clients |-> FALSE]
  /\ renderedAt = [c \in Clients |-> now]
  /\ op = [c \in Clients |-> NoOp]
  /\ jobs = [c \in Clients |-> {}]
  /\ fullNameIn = <<>>
  /\ shortNameOut = <<>>

NextDays ==
  \/ \E c \in OneTab : Snapshot(c)
  \/ \E c \in OneTab : SetName(c, PickerInputs)
  \/ \E c \in OneTab : SetCurrentDay(c)
  \/ \E c \in OneTab : SelectTeam(c)
  \/ \E c \in OneTab : HandleSubmit(c)
  \/ \E c \in OneTab : OpLookup(c)
  \/ \E c \in OneTab : OpWrite(c)

SpecDays == InitDays /\ [][NextDays]_vars

\* One tab of page3 or part2 shared by two participants on the morning of
\* the first contest date: the store holds the Day 1 pick of Mike S, and the
\* name fields are changed between Mike S and Tom S, who has no pick
TwoNames ==
  { << <<"m","i","k","e">>, <<"s">> >>, << <<"t","o","m">>, <<"s">> >> }

InitSwitch ==
  /\ variant \in {"page3", "part2"}
  /\ now = 0
  /\ picks = <<Pick(1, MikeS, Michigan, 1, newPickStatus(variant), 0)>>
  /\ Mounted

NextSwitch ==
  \/ \E c \in OneTab : FetchScores(c)
  \/ \E c \in OneTab : Snapshot(c)
  \/ \E c \in OneTab : SetName(c, TwoNames)
  \/ \E c \in OneTab : SetCurrentDay(c)
  \/ \E c \in OneTab : SelectTeam(c)
  \/ \E c \in OneTab : HandleSubmit(c)
  \/ \E c \in OneTab : OpLookup(c)
  \/ \E c \in OneTab : OpWrite(c)

SpecSwitch == InitSwitch /\ [][NextSwitch]_vars

\* One tab opened after the games of the first contest date on a store that
\* holds one unresolved Day 1 pick.  Two games were played that day, Michigan
\* St beat Duke and Iowa beat Michigan, listed in either order; or one game,
\* in which Michigan won at Michigan St
Iowa == <<"I","o","w","a">>

TwoGameBoards ==
  { << Game(1, 0, MichiganSt, <<"7","0">>, Duke, <<"6","0">>, Final),
       Game(2, 0, Michigan, <<"5","0">>, Iowa, <<"5","5">>, Final) >>,
    << Game(2, 0, Michigan, <<"5","0">>, Iowa, <<"5","5">>, Final),
       Game(1, 0, MichiganSt, <<"7","0">>, Duke, <<"6","0">>, Final) >>,
    << Game(1, 0, MichiganSt, <<"5","0">>, Michigan, <<"5","5">>, Final) >>,
    << Game(1, 0, Iowa, <<"6","1">>, Duke, <<"6","0">>, Final),
       Game(2, 0, Michigan, <<"5","0">>, MichiganSt, <<"5","5">>, Final) >> }

InitBoards ==
  /\ variant \in {"page3", "page4", "part2"}
  /\ now = 1
  /\ picks \in { <<Pick(1, MikeS, team, 1, newPickStatus(variant), 0)>> :
                    team \in {Michigan, MichiganSt, Duke, Iowa} }
  /\ firstName = [c \in Clients |-> <<>>]
  /\ lastInitial = [c \in Clients |-> <<>>]
  /\ selectedTeam = [c \in Clients |-> <<>>]
  /\ currentDay = [c \in Clients |-> 1]
  /\ statusMessage = [c \in Clients |-> ""]
  /\ allUsers = [c \in Clients |-> {}]
  /\ usedTeams = [c \in Clients |-> {}]
  /\ \E board \in TwoGameBoards :
       scoreboard = [c \in Clients |->
         IF c \in OneTab THEN fetchScores(variant, board, now) ELSE <<>>]
  /\ isAdmin = [c \in Clients |-> FALSE]
  /\ nameLocked = [c \in Clients |-> FALSE]
  /\ renderedAt = [c \in Clients |-> now]
  /\ op = [c \in Clients |-> NoOp]
  /\ jobs = [c \in Clients |-> {}]
  /\ fullNameIn = <<>>
  /\ shortNameOut = <<>>

NextBoards ==
  \/ \E c \in OneTab : Snapshot(c)
  \/ \E c \in OneTab : ResolverWrite(c)

SpecBoards == InitBoards /\ [][NextBoards]_vars

\* One tab of page3 or part2 opened on the second contest date, in the
\* morning or at noon, on a store that holds the 'Day 1' pick Mike S
\* submitted on the first date, unresolved or won.  The scoreboard shows the
\* games of that day and the next: the return match, final once it is noon
NextDayTicks == {2, 3}

NextDayBoards(t) ==
  { <<ReturnGame>> } \cup
  (IF t >= noonOf(1)
   THEN { << Game(2, 1, MichiganSt, <<"7","0">>, Michigan, <<"6","0">>, Final) >> }
   ELSE {})

InitNextDay ==
  /\ variant \in {"page3", "part2"}
  /\ now \in NextDayTicks
  /\ picks \in { <<Pick(1, MikeS, team, 1, status, 0)>> :
                    team \in {Michigan, MichiganSt}, status \in {"pending", "won"} }
  /\ firstName = [c \in Clients |-> <<>>]
  /\ lastInitial = [c \in Clients |-> <<>>]
  /\ selectedTeam = [c \in Clients |-> <<>>]
  /\ currentDay = [c \in Clients |-> 1]
  /\ statusMessage = [c \in Clients |-> ""]
  /\ allUsers = [c \in Clients |-> {}]
  /\ usedTeams = [c \in Clients |-> {}]
  /\ \E board \in NextDayBoards(now) :
       scoreboard = [c \in Clients |->
         IF c \in OneTab THEN fetchScores(variant, board, now) ELSE <<>>]
  /\ isAdmin = [c \in Clients |-> FALSE]
  /\ nameLocked = [c \in Clients |-> FALSE]
  /\ renderedAt = [c \in Clients |-> now]
  /\ op = [c \in Clients |-> NoOp]
  /\ jobs = [c \in Clients |-> {}]
  /\ fullNameIn = <<>>
  /\ shortNameOut = <<>>

NextNextDay ==
  \/ \E c \in OneTab : Snapshot(c)
  \/ \E c \in OneTab : SetName(c, PickerInputs)
  \/ \E c \in OneTab : SelectTeam(c)
  \/ \E c \in OneTab : HandleSubmit(c)
  \/ \E c \in OneTab : OpLookup(c)
  \/ \E c \in OneTab : OpWrite(c)
  \/ \E c \in OneTab : ResolverWrite(c)

SpecNextDay == InitNextDay /\ [][NextNextDay]_vars

\* One tab kept open through the afternoon of the first contest date on a
\* store that holds one or two unresolved Day 1 picks, with resolver writes
\* that can fail.  The poll timer keeps firing, the listener keeps
\* delivering, and of the writes the resolver keeps starting for a pick not
\* all fail.
TomS == <<"T","o","m"," ","S">>

RetryStores ==
  StoredPicks \cup
    { <<Pick(1, MikeS, Michigan, 1, status, 0),
        Pick(2, TomS, MichiganSt, 1, status, 0)>> :
        status \in {"none", "pending"} }

\* the status writes the resolver can start on these stores
RetryJobs ==
  { [name |-> n, round |-> 1, status |-> s] :
      n \in {MikeS, TomS}, s \in {"won", "eliminated"} }

InitRetry ==
  /\ variant \in {"page3", "page4", "part2"}
  /\ now = 1
  /\ picks \in { s \in RetryStores : s[1].status = newPickStatus(variant) }
  /\ Mounted

NextRetry ==
  \/ \E c \in OneTab : FetchScores(c)
  \/ \E c \in OneTab : Snapshot(c)
  \/ \E c \in OneTab : ResolverWrite(c)
  \/ \E c \in OneTab : ResolverFail(c)

SpecRetry ==
  /\ InitRetry
  /\ [][NextRetry]_vars
  /\ \A c \in OneTab : WF_vars(FetchScores(c))
  /\ \A c \in OneTab : WF_vars(Snapshot(c))
  /\ \A c \in OneTab : \A job \in RetryJobs : SF_vars(ResolverWriteOf(c, job))

(***************************************************************************)
(* Properties                                                              *)
(***************************************************************************)
\* a step in which handleSubmit of tab c passes its checks and goes on to
\* the store
submitAccepted(c) ==
  /\ op[c] = NoOp
  /\ op'[c] # NoOp
  /\ op'[c].kind = "submit"

\* C1: handleSubmit, invoked for a selected day whose noon deadline is at or
\* before the current time, is never accepted: it starts no write to the store
C1_LockedDayRejected ==
  [][\A c \in Clients :
       isDayLocked(variant, currentDay[c], now) => ~submitAccepted(c)]_vars

\* C2: no write that reaches the store at or after the deadline of a round
\* creates the pick of that round or changes its team
C2_NoWriteAfterDeadline ==
  [][\A i \in DOMAIN picks' :
       (i \notin DOMAIN picks \/ picks'[i].team # picks[i].team)
         => ~isDayLocked(variant, picks'[i].round, now)]_vars

\* C3: the store never holds two picks with the same name and round
C3_OnePickPerNameRound ==
  \A i, j \in DOMAIN picks :
    (picks[i].name = picks[j].name /\ picks[i].round = picks[j].round) => i = j

\* C4: the store never holds two picks of one participant for different
\* rounds with the same team
C4_NoRepeatedTeam ==
  \A i, j \in DOMAIN picks :
    (picks[i].name = picks[j].name /\ picks[i].round # picks[j].round)
      => picks[i].team # picks[j].team

\* C5: handleSubmit is never accepted, and so writes nothing, when the store
\* holds a pick of the submitting participant, for any round, whose team is
\* the selected team
C5_UsedTeamRejected ==
  [][\A c \in Clients :
       (\E i \in DOMAIN picks :
          /\ picks[i].name = submitName(variant, firstName[c], lastInitial[c])
          /\ picks[i].team = selectedTeam[c])
         => ~submitAccepted(c)]_vars

\* C6: a status that is won or eliminated never changes again
C6_StatusOneWay ==
  [][\A i \in DOMAIN picks :
       picks[i].status \in {"won", "eliminated"}
         => picks'[i].status = picks[i].status]_vars

\* the snapshot once the status writes of a resolver run have been applied
afterRun(users, run) ==
  { [u EXCEPT !.picks =
       [i \in DOMAIN u.picks |->
          IF \E j \in run : j.name = u.name /\ j.round = u.picks[i].round
          THEN updateStatus(u.picks[i],
                 (CHOOSE j \in run :
                    j.name = u.name /\ j.round = u.picks[i].round).status)
          ELSE u.picks[i]]] : u \in users }

\* C7: after the status updates of one resolver run have been applied, a
\* second run on the same scoreboard issues no status update
C7_ResolverIdempotent ==
  \A c \in Clients :
    LET first == resolvePendingPicks(variant, allUsers[c], scoreboard[c], now)
    IN  resolvePendingPicks(variant, afterRun(allUsers[c], first),
                            scoreboard[c], now) = {}

\* a game reported with both scores equal to zero
zeroZero(game) ==
  /\ NumberOrZero(game.homeTeam.score) = 0
  /\ NumberOrZero(game.awayTeam.score) = 0

\* the picks of tab c's snapshot that a resolver write names
jobPicks(users, job) ==
  UNION { { u.picks[i] : i \in { k \in DOMAIN u.picks : u.picks[k].round = job.round } } :
            u \in { w \in users : w.name = job.name } }

\* C8: the resolver starts no status write for a pick whose matched game
\* reports 0-0, whatever the game's status description says
C8_NoWriteForNoScore ==
  [][\A c \in Clients : \A job \in jobs'[c] \ jobs[c] :
       \A pick \in jobPicks(allUsers'[c], job) :
         LET g == findGame(variant, pick, scoreboard'[c], now')
         IN  g # 0 => ~zeroZero(scoreboard'[c][g])]_vars

\* C8, the case: a tab whose resolver has run on a pending pick matched to a
\* game reported final at 0-0, and has started no write
C8_Witness ==
  \E c \in Clients : \E u \in allUsers[c] : \E i \in DOMAIN u.picks :
    LET g == findGame(variant, u.picks[i], scoreboard[c], now)
    IN  /\ HasResolver(variant)
        /\ ~resolverSkips(variant, u.picks[i])
        /\ g # 0
        /\ isFinal(variant, scoreboard[c][g].status)
        /\ zeroZero(scoreboard[c][g])
        /\ jobs[c] = {}
        /\ \A k \in DOMAIN picks : picks[k].status \in {"none", "pending"}

\* C9: for a pending pick matched to a final game with a score, the resolver
\* decides won exactly when the score of the side the pick matched is
\* strictly greater than the other side's, and eliminated otherwise
C9_WonIffMatchedSideAhead ==
  \A c \in Clients : \A u \in allUsers[c] : \A i \in DOMAIN u.picks :
    LET pick == u.picks[i]
        g    == findGame(variant, pick, scoreboard[c], now)
    IN  ( /\ HasResolver(variant)
          /\ pick.status \in {"none", "pending"}
          /\ g # 0
          /\ isFinal(variant, scoreboard[c][g].status)
          /\ ~zeroZero(scoreboard[c][g]) )
        => LET game   == scoreboard[c][g]
               np     == normalizeTeamName(variant, pick.team)
               home   == includes(normalizeTeamName(variant, game.homeTeam.name), np)
               h      == NumberOrZero(game.homeTeam.score)
               a      == NumberOrZero(game.awayTeam.score)
               ahead  == IF home THEN h > a ELSE a > h
           IN  resolveOutcome(variant, pick, scoreboard[c], now)
                 = IF ahead THEN "won" ELSE "eliminated"

\* C10: in every tab, the status shown for a participant of the snapshot is
\* eliminated exactly when one of the participant's picks in the snapshot
\* has status eliminated
C10_StatusFromPicks ==
  \A c \in Clients : \A u \in allUsers[c] :
    (standingsStatus(variant, u, scoreboard[c], currentDay[c]) = "eliminated")
      <=> (\E i \in DOMAIN u.picks : u.picks[i].status = "eliminated")

\* the snapshot of tab c holds a pick of the participant with status eliminated
eliminatedInSnapshot(c, name) ==
  \E u \in allUsers[c] :
    /\ u.name = name
    /\ \E i \in DOMAIN u.picks : u.picks[i].status = "eliminated"

\* C11: handleSubmit for a recognized participant who has a pick with status
\* eliminated is rejected with the eliminated message and starts no write
C11_EliminatedRejected ==
  [][\A c \in Clients :
       LET name == submitName(variant, firstName[c], lastInitial[c])
       IN  ( /\ HandleSubmit(c)
             /\ ~malformedName(variant, firstName[c], lastInitial[c])
             /\ recognizedName(variant, name)
             /\ eliminatedInSnapshot(c, name) )
           => /\ statusMessage'[c] = "AlreadyEliminated"
              /\ op'[c] = NoOp]_vars

\* the rules a submission of tab c fails, each as the variant tests it, in
\* the order MalformedName, UnrecognizedName, AlreadyEliminated, WindowLocked,
\* TeamAlreadyUsed
failedRules(c) ==
  LET name   == submitName(variant, firstName[c], lastInitial[c])
      locked == isDayLocked(variant, currentDay[c],
                            IF Rolling(variant) THEN now ELSE renderedAt[c])
  IN  SelectSeq(
        << <<"MalformedName", malformedName(variant, firstName[c], lastInitial[c])>>,
           <<"UnrecognizedName", ~recognizedName(variant, name)>>,
           <<"AlreadyEliminated", eliminatedInSnapshot(c, name)>>,
           <<"WindowLocked", locked>>,
           <<"TeamAlreadyUsed", selectedTeam[c] \in usedTeams[c]>> >>,
        LAMBDA r : r[2])

\* C12: a submission that fails several rules at once is answered with the
\* reason of the first failing rule in the order MalformedName,
\* UnrecognizedName, AlreadyEliminated, WindowLocked, TeamAlreadyUsed
C12_FirstFailingRuleReported ==
  [][\A c \in Clients :
       ( /\ HandleSubmit(c)
         /\ ~isAdminName(variant, firstName[c], lastInitial[c])
         /\ Len(failedRules(c)) >= 2 )
       => /\ statusMessage'[c] = failedRules(c)[1][1]
          /\ op'[c] = NoOp]_vars

\* the typed first name is, in some letter case, the first name of a roster
\* entry and the typed initial the first letter of that entry's last name
rosterMatch(first, initial) ==
  \E i \in DOMAIN participantFullNames :
    LET parts == splitWhitespace(participantFullNames[i])
    IN  /\ toLowerCase(trim(first)) = toLowerCase(parts[1])
        /\ toLowerCase(trim(initial)) = toLowerCase(<<parts[Len(parts)][1]>>)

\* C13: a well-formed, non-admin submission is rejected as unrecognized
\* exactly when its name is not the first name and last initial, in any
\* letter case, of a roster entry
C13_RosterNameRecognized ==
  [][\A c \in Clients :
       ( /\ HandleSubmit(c)
         /\ ~malformedName(variant, firstName[c], lastInitial[c])
         /\ ~isAdminName(variant, firstName[c], lastInitial[c]) )
       => ( (statusMessage'[c] = "UnrecognizedName" /\ op'[c] = NoOp)
              <=> ~rosterMatch(firstName[c], lastInitial[c]) )]_vars

\* the first name is empty after trimming, or the last initial is not
\* exactly one letter
notAName(first, initial) ==
  \/ trim(first) = <<>>
  \/ Len(initial) # 1
  \/ /\ Len(initial) = 1
     /\ initial[1] \notin (UpperSet \cup LowerSet)

\* C14: handleSubmit rejects as a malformed name, without reaching the admin
\* and roster checks, every input whose first name is empty after trimming
\* or whose last initial is not exactly one letter
C14_MalformedNameRejected ==
  [][\A c \in Clients :
       (HandleSubmit(c) /\ notAName(firstName[c], lastInitial[c]))
       => /\ statusMessage'[c] = "MalformedName"
          /\ op'[c] = NoOp
          /\ isAdmin'[c] = isAdmin[c]]_vars

\* the ways a submission fails validation
ValidationFailures ==
  {"MalformedName", "UnrecognizedName", "AlreadyEliminated", "WindowLocked",
   "TeamAlreadyUsed"}

\* the outcome of the checks of the handleSubmit that tab c would run now
checksOutcome(c) ==
  validateSubmission(variant, firstName[c], lastInitial[c], selectedTeam[c],
                     currentDay[c], allUsers[c], usedTeams[c], now, renderedAt[c])

\* C15: a handleSubmit execution that ends in a validation failure leaves
\* the store unchanged, leaves nothing awaiting the store, and sets a
\* non-empty status message
C15_FailureWritesNothing ==
  [][\A c \in Clients :
       (HandleSubmit(c) /\ checksOutcome(c) \in ValidationFailures)
       => /\ picks' = picks
          /\ op'[c] = NoOp
          /\ statusMessage'[c] # ""]_vars

\* C15, the case: a tab whose last handleSubmit was rejected for a team
\* already used, with nothing awaiting the store
C15_Witness ==
  \E c \in Clients :
    /\ statusMessage[c] = "TeamAlreadyUsed"
    /\ selectedTeam[c] \in usedTeams[c]
    /\ op[c] = NoOp

\* C16: every pick created in the store and every change of a pick's team is
\* the write of a handleSubmit that passed its checks for that name, team
\* and round
C16_WritesOnlyFromAcceptedSubmission ==
  [][\A i \in DOMAIN picks' :
       (i \notin DOMAIN picks \/ picks'[i].team # picks[i].team)
         => \E c \in Clients :
              /\ op[c] # NoOp
              /\ op[c].kind = "submit"
              /\ op[c].name = picks'[i].name
              /\ op[c].team = picks'[i].team
              /\ op[c].round = picks'[i].round]_vars

\* C17: the team-name match of the resolver is symmetric: a stored pick
\* matches a live team name exactly when that name, taken as the pick,
\* matches the pick's team taken as the live name
C17_MatchSymmetric ==
  \A c \in Clients : \A u \in allUsers[c] : \A i \in DOMAIN u.picks :
    \A g \in DOMAIN scoreboard[c] :
      \A liveName \in {scoreboard[c][g].homeTeam.name, scoreboard[c][g].awayTeam.name} :
        HasResolver(variant)
          => ( teamsMatch(variant, u.picks[i].team, liveName)
                 <=> teamsMatch(variant, liveName, u.picks[i].team) )

\* two full names that differ in letter case only
sameLetters(a, b) == toLowerCase(a) = toLowerCase(b)

\* C18: getShortName normalizes letter case: full names that differ only in
\* letter case get the same ShortName, and 'PATRICK gifford' and
\* 'patrick GIFFORD' both get 'Patrick G'
C18_ShortNameCaseNormalized ==
  (variant # "page4" /\ shortNameOut # <<>>)
    => /\ \A other \in NameInputs :
            sameLetters(other, fullNameIn)
              => getShortName(variant, other) = shortNameOut
       /\ sameLetters(fullNameIn, participantFullNames[1]) /\ fullNameIn # participantFullNames[1]
            => shortNameOut = <<"P","a","t","r","i","c","k"," ","G">>

\* the roster, as a set of full names
Roster == { participantFullNames[i] : i \in DOMAIN participantFullNames }

\* C19: the ShortName derivation is injective on the roster: the ShortName
\* derived for a roster name is derived for no other roster name
C19_ShortNameInjectiveOnRoster ==
  (fullNameIn \in Roster /\ shortNameOut # <<>>)
    => \A other \in Roster :
         rowShortName(variant, other) = shortNameOut => other = fullNameIn

\* C19, the case: the ShortName of Mike Schwartz has been derived, on a roster
\* that holds a second Mike
C19_Witness ==
  /\ fullNameIn = participantFullNames[3]
  /\ shortNameOut = MikeS
  /\ \E other \in Roster :
       /\ other # fullNameIn
       /\ splitWhitespace(other)[1] = splitWhitespace(fullNameIn)[1]

\* the write of the handleSubmit of tab c completes in this step
submitWritten(c) ==
  /\ op[c] # NoOp
  /\ op[c].kind = "submit"
  /\ op[c].phase = "write"
  /\ op'[c] = NoOp
  /\ statusMessage'[c] = "Saved"

\* what the lookup of tab c's handleSubmit found is still what the store
\* holds for that name and round, and that is at most one document
lookupStillCurrent(c) ==
  LET found == matching(picks, op[c].name, op[c].round)
  IN  IF op[c].target = 0 THEN found = {} ELSE found = {op[c].target}

\* C20: when nothing else wrote the same (name, round) between the lookup
\* and the write of an accepted submission, the write updates the team of
\* the existing record, or inserts one if there was none, and afterwards
\* exactly one record exists for that (name, round), with the submitted team
C20_UpdateElseInsert ==
  [][\A c \in Clients :
       (submitWritten(c) /\ lookupStillCurrent(c))
       => LET after == matching(picks', op[c].name, op[c].round)
          IN  /\ Cardinality(after) = 1
              /\ \A i \in after : picks'[i].team = op[c].team
              /\ Len(picks') = IF op[c].target = 0 THEN Len(picks) + 1 ELSE Len(picks)
              /\ \A i \in DOMAIN picks : i \notin after => picks'[i] = picks[i]]_vars

\* C20, the case: two tabs have both saved a pick for the same name and
\* round, one by inserting and the other by updating, and the store holds
\* one record
C20_Witness ==
  /\ \A c \in Clients : statusMessage[c] = "Saved" /\ op[c] = NoOp
  /\ Len(picks) = 1
  /\ picks[1].team = MichiganSt

\* the reserved admin value, in any letter case
adminValue(first, initial) ==
  /\ toLowerCase(trim(first)) = kwStanley
  /\ toLowerCase(trim(initial)) = <<"s">>

\* C21: a submission of the admin value turns admin mode on and neither
\* reads nor writes the store, whatever the lock state of the selected day
\* and the selected team are, and is not answered by the roster check
C21_AdminBypass ==
  [][\A c \in Clients :
       (HandleSubmit(c) /\ adminValue(firstName[c], lastInitial[c]))
       => /\ isAdmin'[c]
          /\ statusMessage'[c] = "Admin"
          /\ op'[c] = NoOp
          /\ picks' = picks]_vars

\* C21, the case: admin mode was turned on by a submission made after the
\* noon deadline of the selected day
C21_Witness ==
  \E c \in Clients :
    /\ isAdmin[c]
    /\ statusMessage[c] = "Admin"
    /\ renderedAt[c] = now
    /\ isDayLocked(variant, currentDay[c], now)
    /\ picks = <<>>

\* a status description that contains the keyword final or the keyword end,
\* in any letter case
saysFinalOrEnd(status) ==
  \/ includes(toLowerCase(status), <<"f","i","n","a","l">>)
  \/ includes(toLowerCase(status), <<"e","n","d">>)

\* C22: the resolver starts a status write for a pick only if a game of the
\* pick's date has a side matching the pick's team and the status
\* description of that game contains final or end; otherwise the pick is
\* left as it is
C22_NoWriteWithoutFinalGame ==
  [][\A c \in Clients : \A job \in jobs'[c] \ jobs[c] :
       \A pick \in jobPicks(allUsers'[c], job) :
         LET g == findGame(variant, pick, scoreboard'[c], now')
         IN  /\ g # 0
             /\ saysFinalOrEnd(scoreboard'[c][g].status)]_vars

\* the stored pick i has no result yet and the tab's scoreboard holds, on the
\* pick's date, a matching game that is final with a score
resolvable(c, i) ==
  /\ i \in DOMAIN picks
  /\ picks[i].status \in {"none", "pending"}
  /\ LET g == findGame(variant, picks[i], scoreboard[c], now)
     IN  g # 0 /\ isFinal(variant, scoreboard[c][g].status) /\ ~noScore(scoreboard[c][g])

C24_TeamPlaysOnPickDay ==
  \A i \in DOMAIN picks :
    /\ picks[i].team # <<>>
    /\ \E c \in OneTab :
         picks[i].team \in availableTeams(variant, scoreboard[c], picks[i].round, now)

\* C25: a write to a stored pick is targeted: a resolver write leaves its
\* team as it is, an update by handleSubmit or by the admin edit leaves its
\* status as it is, and no write changes its name, round or createdAt
C25_TargetedWrites ==
  [][\A i \in DOMAIN picks :
       /\ picks'[i].name = picks[i].name
       /\ picks'[i].round = picks[i].round
       /\ picks'[i].createdAt = picks[i].createdAt
       /\ (\E c \in Clients : ResolverWrite(c)) => picks'[i].team = picks[i].team
       /\ (\E c \in Clients : OpWrite(c)) => picks'[i].status = picks[i].status]_vars

\* the result of the game the team plays on the pick's date, read from a
\* scoreboard on which that game is final with a score: "won", "eliminated",
\* or "open" when there is no such game
gameOutcome(v, pick, sb, t) ==
  LET mine == { g \in DOMAIN sb :
                  /\ sb[g].date = dayDate(v, pick.round, t)
                  /\ pick.team \in {sb[g].homeTeam.name, sb[g].awayTeam.name}
                  /\ sb[g].status = Final
                  /\ ~noScore(sb[g]) }
  IN  IF mine = {} THEN "open"
      ELSE LET g == CHOOSE g \in mine : TRUE
               h == NumberOrZero(sb[g].homeTeam.score)
               a == NumberOrZero(sb[g].awayTeam.score)
           IN  IF pick.team = sb[g].homeTeam.name
               THEN (IF h > a THEN "won" ELSE "eliminated")
               ELSE (IF a > h THEN "won" ELSE "eliminated")

\* C26: a stored pick with status won or eliminated has the status that is
\* the result of the game of the team it stores now, whatever team changes
\* and resolver runs were interleaved
C26_StatusOfStoredTeam ==
  \A i \in DOMAIN picks : \A c \in OneTab :
    (/\ picks[i].status \in {"won", "eliminated"}
     /\ gameOutcome(variant, picks[i], scoreboard[c], now) # "open")
      => picks[i].status = gameOutcome(variant, picks[i], scoreboard[c], now)

\* the participant `name` has a pick with `team`, in the store or in the
\* snapshot held by tab c
hasPickWith(c, name, team) ==
  \/ \E i \in DOMAIN picks : picks[i].name = name /\ picks[i].team = team
  \/ team \in teamsOf(variant, findUser(allUsers[c], name))

\* C27: handleSubmit rejects a submission as team-already-used only if the
\* participant whose name is entered has a pick with the selected team
C27_UsedTeamsOfCurrentName ==
  [][\A c \in Clients :
       (HandleSubmit(c) /\ statusMessage'[c] = "TeamAlreadyUsed")
         => hasPickWith(c, submitName(variant, firstName[c], lastInitial[c]),
                        selectedTeam[c])]_vars

\* C28: for a pick whose team is exactly the name of a team that played on
\* the pick's date, the status the resolver starts to write is the result of
\* that team's own game and side, whatever other games the scoreboard lists
C28_ExactTeamDecides ==
  [][\A c \in Clients : \A job \in jobs'[c] \ jobs[c] :
       \A pick \in jobPicks(allUsers'[c], job) :
         gameOutcome(variant, pick, scoreboard'[c], now') # "open"
           => job.status = gameOutcome(variant, pick, scoreboard'[c], now')]_vars

\* the store holds an eliminated pick of the participant `name`
eliminatedInStore(name) ==
  \E i \in DOMAIN picks : picks[i].name = name /\ picks[i].status = "eliminated"

\* C29: once the store holds an eliminated pick of a participant, no pick of
\* that participant is created and none has its team changed
C29_EliminatedIsFrozen ==
  [][\A j \in DOMAIN picks' :
       eliminatedInStore(picks'[j].name)
         => /\ j \in DOMAIN picks
            /\ picks'[j].team = picks[j].team]_vars

\* the calendar date 'Day n' denoted when the pick was submitted
submittedFor(pick) == today(pick.createdAt) + pick.round - 1

\* C30: in the rolling-window variants a stored pick is resolved only against
\* games of the date its 'Day N' denoted when it was submitted, and a
\* submission for 'Day N' on a later calendar day does not take over the
\* result stored under the same name and round
C30_PickDateFixedAtSubmission ==
  [][/\ \A c \in Clients : \A job \in jobs'[c] \ jobs[c] :
          \A pick \in jobPicks(allUsers'[c], job) :
            LET g == findGame(variant, pick, scoreboard'[c], now')
            IN  g # 0 => scoreboard'[c][g].date = submittedFor(pick)
      /\ \A i \in DOMAIN picks :
          (picks'[i].team # picks[i].team /\ today(now) # today(picks[i].createdAt))
            => picks'[i].status \notin {"won", "eliminated"}]_vars

====
